---- MODULE Spec2Model ----
(***************************************************************************)
(* Monte Carlo Tree Search of "import chess.py": Node, ucb1, best_child,   *)
(* evaluate_board, mcts and get_top_moves, over a small stand-in for the   *)
(* python-chess Board (turn, legal_moves, push, is_game_over, result).     *)
(*                                                                         *)
(* Scores are kept as integers in tenths (0.1 == 1, a won game == 10), and *)
(* the UCB1 priority in hundredths, so that wins/visits and the square     *)
(* root are computed in integer arithmetic.                                *)
(***************************************************************************)
EXTENDS Integers, Sequences, FiniteSets, TLC

VARIABLES
    heap,             \* the Board objects: handle -> position
    temp_board,       \* mcts: handle of the iteration's board
    iterations,       \* mcts argument
    simulation_depth, \* mcts argument
    tree,             \* the Node objects: id -> [move, parent, children, wins, visits]
    it,               \* number of loop iterations completed
    node,             \* mcts: local variable node (a Node id, None is 0)
    depth,            \* mcts: local variable depth
    score,            \* mcts: local variable score (tenths)
    pc,               \* position in mcts / after it
    top_n,            \* get_top_moves argument
    top_moves,        \* get_top_moves result (Node ids)
    board0,           \* history: the position handed to mcts
    start,            \* history: the node the rollout started from
    snap,             \* history: the tree when the iteration began
    rolled,           \* history: rollout moves pushed in this iteration
    pushedOver,       \* history: a rollout move was pushed on a finished game
    rolledLeaves,     \* history: the nodes a rollout has started from
    astar,            \* a_estrella: its arguments, local variables and result
    buttons           \* ChessGUI: the moves of the suggestion buttons

vars == <<heap, temp_board, iterations, simulation_depth, tree, it, node, depth,
          score, pc, top_n, top_moves, board0, start, snap, rolled, pushedOver, rolledLeaves, astar, buttons>>

(***************************************************************************)
(* Bounds of the model.                                                    *)
(***************************************************************************)
MaxIter == 5
MaxDepth == 3
MaxTop == 3
ClockLimit == 3
MaxKids == 3
MaxVisits == 3
MaxWeight == 20
MaxPieces == 2

MaxCost == 3

(***************************************************************************)
(* python-chess stand-in.  A position is the side to move, the pieces on a *)
(* few squares (FEN letters, upper case white, "." empty), a half-move     *)
(* clock and a status.  Like chess: every push passes the turn; a game     *)
(* that is not over has a legal move; a finished game has none when it is  *)
(* checkmate or stalemate, and still has some when it is a draw by         *)
(* insufficient material or by the move clock.                             *)
(*                                                                         *)
(* Two more statuses stand for a rules engine that contradicts itself:     *)
(* "stuck" is a position reported not over that has no legal move, and     *)
(* "brink" plays like "play" but every move from it leads to "stuck".      *)
(* No position of StartBoards has them; only StuckBoards does.             *)
(***************************************************************************)
WHITE == TRUE
BLACK == FALSE
None == 0

Squares == <<"a1", "d4", "d5", "e4", "e5", "h8">>
SquareSet == {Squares[i] : i \in 1..Len(Squares)}
WhitePieces == {"P", "N", "B", "R", "Q", "K"}
BlackPieces == {"p", "n", "b", "r", "q", "k"}

NoMove == <<"None", "-">>

Empty == [s \in SquareSet |-> "."]

Place(sq1, p1, sq2, p2) == [s \in SquareSet |-> IF s = sq1 THEN p1 ELSE IF s = sq2 THEN p2 ELSE "."]

Position(t, ps, st) == [turn |-> t, pieces |-> ps, clock |-> 0, status |-> st]

ColorOf(p) == p \in WhitePieces

Own(b, s) == b.pieces[s] # "." /\ ColorOf(b.pieces[s]) = b.turn
Theirs(b, s) == b.pieces[s] # "." /\ ColorOf(b.pieces[s]) # b.turn

HasMajor(b) == \E s \in SquareSet : Own(b, s) /\ b.pieces[s] \in {"R", "Q", "r", "q"}

\* board.is_game_over()
is_game_over(b) ==
    \/ b.status \in {"checkmate", "stalemate"}
    \/ \A s \in SquareSet : b.pieces[s] = "."
    \/ b.clock >= ClockLimit

RECURSIVE Captures(_, _)
Captures(b, i) ==
    IF i > Len(Squares) THEN <<>>
    ELSE (IF Theirs(b, Squares[i]) /\ (\E s \in SquareSet : Own(b, s))
          THEN <<(<<"x", Squares[i]>>)>> ELSE <<>>) \o Captures(b, i + 1)

\* board.legal_moves, in generation order
legal_moves(b) ==
    IF b.status \notin {"play", "brink"} THEN <<>>
    ELSE Captures(b, 1)
         \o (IF HasMajor(b) THEN <<(<<"mate", "-">>)>> ELSE <<>>)
         \o (IF HasMajor(b) /\ ~(\E s \in SquareSet : Theirs(b, s))
             THEN <<(<<"stale", "-">>)>> ELSE <<>>)
         \o <<(<<"quiet", "-">>)>>

\* board.push(move): the position after the move
push(b, m) ==
    CASE b.status = "brink" ->
            [b EXCEPT !.turn = ~b.turn, !.clock = b.clock + 1, !.status = "stuck"]
      [] m[1] = "x" ->
            [b EXCEPT !.turn = ~b.turn, !.pieces[m[2]] = ".", !.clock = 0]
      [] m[1] = "mate" ->
            [b EXCEPT !.turn = ~b.turn, !.clock = b.clock + 1, !.status = "checkmate"]
      [] m[1] = "stale" ->
            [b EXCEPT !.turn = ~b.turn, !.clock = b.clock + 1, !.status = "stalemate"]
      [] OTHER ->
            [b EXCEPT !.turn = ~b.turn, !.clock = b.clock + 1]

\* board.result()
result(b) ==
    IF b.status = "checkmate" THEN (IF b.turn = WHITE THEN "0-1" ELSE "1-0")
    ELSE IF is_game_over(b) THEN "1/2-1/2"
    ELSE "*"

\* the positions mcts is called with
StartBoards ==
    {Position(t, Place("a1", "R", "h8", "p"), "play") : t \in BOOLEAN}
    \cup {Position(t, Place("d4", "P", "e5", "p"), "play") : t \in BOOLEAN}
    \cup {Position(BLACK, Place("a1", "R", "h8", "r"), "play"),
          Position(WHITE, Empty, "play"),
          Position(BLACK, Place("a1", "R", "h8", "p"), "checkmate")}

\* positions of a rules engine that contradicts itself
StuckBoards ==
    {Position(t, Place("a1", "R", "h8", "p"), "brink") : t \in BOOLEAN}
    \cup {Position(WHITE, Place("d4", "P", "e5", "p"), "stuck")}

(***************************************************************************)
(* PIECE_VALUES and evaluate_board, in tenths.                             *)
(***************************************************************************)
PieceTypes == <<"P", "N", "B", "R", "Q", "K">>

PIECE_VALUES == [P |-> 1, N |-> 3, B |-> 3, R |-> 5, Q |-> 9, K |-> 0]

Symbol(type, color) ==
    IF color = WHITE THEN type
    ELSE [P |-> "p", N |-> "n", B |-> "b", R |-> "r", Q |-> "q", K |-> "k"][type]

\* board.pieces(piece_type, color): the squares holding such a piece
pieces(b, type, color) == {s \in SquareSet : b.pieces[s] = Symbol(type, color)}

center_squares == <<"d4", "d5", "e4", "e5">>

RECURSIVE MaterialFrom(_, _)
MaterialFrom(b, i) ==
    IF i > Len(PieceTypes) THEN 0
    ELSE 10 * Cardinality(pieces(b, PieceTypes[i], WHITE)) * PIECE_VALUES[PieceTypes[i]]
         - 10 * Cardinality(pieces(b, PieceTypes[i], BLACK)) * PIECE_VALUES[PieceTypes[i]]
         + MaterialFrom(b, i + 1)

\* the center loop without the penalty for a black piece
CenterFromWhiteOnly(b, i) ==
    LET RECURSIVE Go(_)
        Go(j) == IF j > Len(center_squares) THEN 0
                 ELSE (IF b.pieces[center_squares[j]] \in WhitePieces THEN 1 ELSE 0) + Go(j + 1)
    IN  Go(i)

RECURSIVE CenterFrom(_, _)
CenterFrom(b, i) ==
    IF i > Len(center_squares) THEN 0
    ELSE (IF b.pieces[center_squares[i]] \in WhitePieces THEN 1
          ELSE IF b.pieces[center_squares[i]] \in BlackPieces THEN -1
          ELSE 0) + CenterFrom(b, i + 1)

evaluate_board(b) == MaterialFrom(b, 1) + CenterFrom(b, 1)

(***************************************************************************)
(* Node, ucb1, best_child.  The tree is the sequence of the nodes made so  *)
(* far; a node is named by its index and the root is node 1.               *)
(***************************************************************************)
Root == 1

NewNode(move, parent) ==
    [move |-> move, parent |-> parent, children |-> <<>>, wins |-> 0, visits |-> 0]

\* 1000 * ln(n), rounded
LnMilli == <<0, 693, 1099, 1386, 1609, 1792, 1946, 2079, 2197, 2303>>

ISqrt(x) == CHOOSE r \in 0..500 : r * r <= x /\ (r + 1) * (r + 1) > x

exploration_weight == 14

\* ucb1 without the infinite priority of an unvisited node
ucb1_unvisited_zero(t, n, w) ==
    IF t[n].visits = 0 THEN <<0, 0>>
    ELSE <<0, (10 * t[n].wins) \div t[n].visits
              + ISqrt((w * w * LnMilli[t[t[n].parent].visits]) \div (10 * t[n].visits))>>

\* Node.ucb1: <<1, 0>> is float('inf'), <<0, u>> the finite priority u (hundredths)
ucb1(t, n, w) ==
    IF t[n].visits = 0 THEN <<1, 0>>
    ELSE <<0, (10 * t[n].wins) \div t[n].visits
              + ISqrt((w * w * LnMilli[t[t[n].parent].visits]) \div (10 * t[n].visits))>>

\* the comparison of min instead of max
Smaller(a, b) == a[1] < b[1] \/ (a[1] = b[1] /\ a[2] < b[2])

Greater(a, b) == a[1] > b[1] \/ (a[1] = b[1] /\ a[2] > b[2])

\* max(children, key = ucb1): the first child of the greatest priority
RECURSIVE MaxFrom(_, _, _, _, _)
MaxFrom(t, cs, w, i, best) ==
    IF i > Len(cs) THEN best
    ELSE MaxFrom(t, cs, w, i + 1,
                 IF Greater(ucb1(t, cs[i], w), ucb1(t, best, w)) THEN cs[i] ELSE best)

best_child_with(t, n, w) == MaxFrom(t, t[n].children, w, 2, t[n].children[1])

\* Node.best_child
best_child(t, n) == best_child_with(t, n, exploration_weight)

(***************************************************************************)
(* get_top_moves.                                                          *)
(***************************************************************************)
\* the sort taking wins for its key
InsertSortedByWins(t, s, c) ==
    LET RECURSIVE Ins(_)
        Ins(r) == IF r = <<>> THEN <<c>>
                  ELSE IF t[Head(r)].wins >= t[c].wins THEN <<Head(r)>> \o Ins(Tail(r))
                  ELSE <<c>> \o r
    IN  Ins(s)

\* sorted(..., reverse=True) keeps the order of equal keys: c goes after every
\* element whose key is at least its own
RECURSIVE InsertSorted(_, _, _)
InsertSorted(t, s, c) ==
    IF s = <<>> THEN <<c>>
    ELSE IF t[Head(s)].visits >= t[c].visits THEN <<Head(s)>> \o InsertSorted(t, Tail(s), c)
    ELSE <<c>> \o s

RECURSIVE SortFrom(_, _, _, _)
SortFrom(t, cs, i, acc) ==
    IF i > Len(cs) THEN acc ELSE SortFrom(t, cs, i + 1, InsertSorted(t, acc, cs[i]))

\* sorted(node.children, key=lambda child: child.visits, reverse=True)
sorted_children(t, n) == SortFrom(t, t[n].children, 1, <<>>)

\* s[:k]
Slice(s, k) ==
    IF k >= 0 THEN SubSeq(s, 1, IF k < Len(s) THEN k ELSE Len(s))
    ELSE SubSeq(s, 1, IF Len(s) + k > 0 THEN Len(s) + k ELSE 0)

get_top_moves(t, n, k) == Slice(sorted_children(t, n), k)

(***************************************************************************)
(* mcts, one action per phase of the loop body.                            *)
(***************************************************************************)
\* temp_board = board: the same object, no copy
board_alias(h) == h

\* board.copy(): the handle of the new Board object
board_copy(h) == "temp"

\* the loop leaving one turn early
LoopStopsEarly(i, n) == i < n - 1

\* range(iterations): another turn of the loop after i of them
LoopContinues(i, n) == i < n

\* the selection stopping at a node of one child
SelectionStopsAtSingle(t, n) == Len(t[n].children) > 1

\* while node.children
SelectionContinues(t, n) == t[n].children # <<>>

\* math.log(self.parent.visits) raises ValueError on 0, for a visited child
UcbRaises(t, n) ==
    \E i \in 1..Len(t[n].children) : t[t[n].children[i]].visits # 0 /\ t[n].visits = 0

\* the selection descending without replaying the move
DescendWithoutPush(b, m) == b

\* temp_board.push(node.move) of the selection
Descend(b, m) == push(b, m)

\* the tree after "for move in legal_moves: node.children.append(Node(move, node))"
Expanded(t, n, ms) ==
    [(t \o [i \in 1..Len(ms) |-> NewNode(ms[i], n)])
        EXCEPT ![n].children = @ \o [i \in 1..Len(ms) |-> Len(t) + i]]

\* the choice made only when there is a child, the iteration going on otherwise
ChooseChildIfAny(t, n) ==
    IF t[n].children = <<>> THEN {[node |-> n, pc |-> "simulate"]}
    ELSE {[node |-> t[n].children[i], pc |-> "simulate"] : i \in 1..Len(t[n].children)}

\* node = random.choice(node.children): any child, IndexError when there is none
ChooseChild(t, n) ==
    IF t[n].children = <<>> THEN {[node |-> n, pc |-> "IndexError"]}
    ELSE {[node |-> t[n].children[i], pc |-> "simulate"] : i \in 1..Len(t[n].children)}

\* the simulation loop without the test of the end of the game
SimulationIgnoresGameOver(b, d, limit) == d < limit

\* the simulation loop with depth <= simulation_depth
SimulationOneMore(b, d, limit) == ~is_game_over(b) /\ d <= limit

\* while not temp_board.is_game_over() and depth < simulation_depth
SimulationContinues(b, d, limit) == ~is_game_over(b) /\ d < limit

\* the terminal scores with the two results exchanged
TerminalScoreSwapped(b) ==
    IF result(b) = "0-1" THEN 10 ELSE IF result(b) = "1-0" THEN -10 ELSE 0

\* the terminal part of the scoring
TerminalScore(b) ==
    IF result(b) = "1-0" THEN 10 ELSE IF result(b) = "0-1" THEN -10 ELSE 0

Score(b) == IF is_game_over(b) THEN TerminalScore(b) ELSE evaluate_board(b)

\* score if temp_board.turn == chess.WHITE else -score
Contribution(b, sc, n) == IF b.turn = WHITE THEN sc ELSE -sc

\* the backpropagation stopping below the root
BackpropSkipsRoot(t, n) == n # None /\ t[n].parent # None

\* while node is not None
BackpropContinues(t, n) == n # None

\* a_estrella not called
AStarIdle == [pc |-> "idle"]

Init ==
    /\ board0 \in StartBoards
    /\ heap = ("board" :> board0)
    /\ temp_board = "none"
    /\ iterations \in 0..MaxIter
    /\ simulation_depth \in 0..MaxDepth
    /\ tree = <<NewNode(NoMove, None)>>
    /\ it = 0
    /\ node = None
    /\ depth = 0
    /\ score = 0
    /\ pc = "loop"
    /\ top_n = 0
    /\ top_moves = <<>>
    /\ start = None
    /\ snap = tree
    /\ rolled = 0
    /\ pushedOver = FALSE
    /\ rolledLeaves = {}
    /\ astar = AStarIdle
    /\ buttons = <<>>

\* for _ in range(iterations): node = root; temp_board = board.copy()
Iterate ==
    /\ pc = "loop"
    /\ LoopContinues(it, iterations)
    /\ node' = Root
    /\ temp_board' = board_copy("board")
    /\ heap' = (temp_board' :> heap["board"]) @@ heap
    /\ pc' = "select"
    /\ snap' = tree
    /\ rolled' = 0
    /\ start' = None
    /\ UNCHANGED <<iterations, simulation_depth, tree, it, depth, score, top_n,
                   top_moves, board0, pushedOver, rolledLeaves, astar, buttons>>

\* return root
Return ==
    /\ pc = "loop"
    /\ ~LoopContinues(it, iterations)
    /\ pc' = "returned"
    /\ UNCHANGED <<heap, temp_board, iterations, simulation_depth, tree, it, node,
                   depth, score, top_n, top_moves, board0, start, snap, rolled,
                   pushedOver, rolledLeaves, astar, buttons>>

\* one turn of the selection loop
Select ==
    /\ pc = "select"
    /\ IF SelectionContinues(tree, node)
       THEN IF UcbRaises(tree, node)
            THEN /\ pc' = "ValueError"
                 /\ UNCHANGED <<node, heap>>
            ELSE /\ node' = best_child(tree, node)
                 /\ heap' = [heap EXCEPT ![temp_board] = Descend(@, tree[node'].move)]
                 /\ pc' = pc
       ELSE /\ pc' = "expand"
            /\ UNCHANGED <<node, heap>>
    /\ UNCHANGED <<temp_board, iterations, simulation_depth, tree, it, depth, score,
                   top_n, top_moves, board0, start, snap, rolled, pushedOver, rolledLeaves, astar, buttons>>

\* the expansion, and depth = 0
Expand ==
    /\ pc = "expand"
    /\ IF ~is_game_over(heap[temp_board])
       THEN LET ms == legal_moves(heap[temp_board])
                t2 == Expanded(tree, node, ms)
            IN  /\ tree' = t2
                /\ \E o \in ChooseChild(t2, node) :
                        /\ node' = o.node
                        /\ pc' = o.pc
                        /\ heap' = IF o.node = node THEN heap
                                   ELSE [heap EXCEPT ![temp_board] = push(@, t2[o.node].move)]
       ELSE /\ pc' = "simulate"
            /\ UNCHANGED <<tree, node, heap>>
    /\ depth' = 0
    /\ UNCHANGED <<temp_board, iterations, simulation_depth, it, score, top_n,
                   top_moves, board0, start, snap, rolled, pushedOver, rolledLeaves, astar, buttons>>

\* one turn of the simulation loop
Simulate ==
    /\ pc = "simulate"
    /\ IF SimulationContinues(heap[temp_board], depth, simulation_depth)
       THEN LET ms == legal_moves(heap[temp_board])
            IN  IF ms = <<>>
                THEN /\ pc' = "IndexError"
                     /\ UNCHANGED <<heap, depth, rolled, pushedOver>>
                ELSE \E i \in 1..Len(ms) :
                     /\ heap' = [heap EXCEPT ![temp_board] = push(@, ms[i])]
                     /\ depth' = depth + 1
                     /\ rolled' = rolled + 1
                     /\ pushedOver' = (pushedOver \/ is_game_over(heap[temp_board]))
                     /\ pc' = pc
       ELSE /\ pc' = "score"
            /\ UNCHANGED <<heap, depth, rolled, pushedOver>>
    /\ UNCHANGED <<temp_board, iterations, simulation_depth, tree, it, node, score,
                   top_n, top_moves, board0, start, snap, rolledLeaves, astar, buttons>>

\* the result or the heuristic evaluation
Evaluate ==
    /\ pc = "score"
    /\ score' = Score(heap[temp_board])
    /\ start' = node
    /\ rolledLeaves' = rolledLeaves \cup {node}
    /\ pc' = "backprop"
    /\ UNCHANGED <<heap, temp_board, iterations, simulation_depth, tree, it, node,
                   depth, top_n, top_moves, board0, snap, rolled, pushedOver, astar, buttons>>

\* one turn of the backpropagation loop; the end of the loop body
Backpropagate ==
    /\ pc = "backprop"
    /\ IF BackpropContinues(tree, node)
       THEN /\ tree' = [tree EXCEPT
                           ![node].visits = @ + 1,
                           ![node].wins = @ + Contribution(heap[temp_board], score, node)]
            /\ node' = tree[node].parent
            /\ UNCHANGED <<it, pc>>
       ELSE /\ it' = it + 1
            /\ pc' = "loop"
            /\ UNCHANGED <<tree, node>>
    /\ UNCHANGED <<heap, temp_board, iterations, simulation_depth, depth, score,
                   top_n, top_moves, board0, start, snap, rolled, pushedOver, rolledLeaves, astar, buttons>>

\* show_suggestions: get_top_moves(root, top_n)
GetTopMoves ==
    /\ pc = "returned"
    /\ \E k \in 0..MaxTop :
        /\ top_n' = k
        /\ top_moves' = get_top_moves(tree, Root, k)
    /\ pc' = "ranked"
    /\ UNCHANGED <<heap, temp_board, iterations, simulation_depth, tree, it, node,
                   depth, score, board0, start, snap, rolled, pushedOver, rolledLeaves, astar, buttons>>

Next ==
    \/ Iterate
    \/ Return
    \/ Select
    \/ Expand
    \/ Simulate
    \/ Evaluate
    \/ Backpropagate
    \/ GetTopMoves

Spec == Init /\ [][Next]_vars

(***************************************************************************)
(* mcts on the positions of a rules engine that contradicts itself.        *)
(***************************************************************************)
InitStuck ==
    /\ board0 \in StuckBoards
    /\ heap = ("board" :> board0)
    /\ temp_board = "none"
    /\ iterations \in 0..MaxIter
    /\ simulation_depth \in 0..MaxDepth
    /\ tree = <<NewNode(NoMove, None)>>
    /\ it = 0
    /\ node = None
    /\ depth = 0
    /\ score = 0
    /\ pc = "loop"
    /\ top_n = 0
    /\ top_moves = <<>>
    /\ start = None
    /\ snap = tree
    /\ rolled = 0
    /\ pushedOver = FALSE
    /\ rolledLeaves = {}
    /\ astar = AStarIdle
    /\ buttons = <<>>

SpecStuck == InitStuck /\ [][Next]_vars

(***************************************************************************)
(* evaluate_board on any board of up to MaxPieces pieces.                  *)
(***************************************************************************)
EvalBoards ==
    UNION {{[s \in SquareSet |-> IF s \in S THEN a[s] ELSE "."] :
                a \in [S -> WhitePieces \cup BlackPieces]} :
           S \in {T \in SUBSET SquareSet : Cardinality(T) <= MaxPieces}}

InitEval ==
    /\ board0 \in {Position(WHITE, ps, "play") : ps \in EvalBoards}
    /\ heap = ("board" :> board0)
    /\ temp_board = "none"
    /\ iterations = 0
    /\ simulation_depth = 0
    /\ tree = <<NewNode(NoMove, None)>>
    /\ it = 0
    /\ node = None
    /\ depth = 0
    /\ score = 0
    /\ pc = "evaluate_board"
    /\ top_n = 0
    /\ top_moves = <<>>
    /\ start = None
    /\ snap = tree
    /\ rolled = 0
    /\ pushedOver = FALSE
    /\ rolledLeaves = {}
    /\ astar = AStarIdle
    /\ buttons = <<>>

\* score = evaluate_board(board)
EvaluateBoard ==
    /\ pc = "evaluate_board"
    /\ score' = evaluate_board(heap["board"])
    /\ pc' = "evaluated"
    /\ UNCHANGED <<heap, temp_board, iterations, simulation_depth, tree, it, node,
                   depth, top_n, top_moves, board0, start, snap, rolled, pushedOver,
                   rolledLeaves, astar, buttons>>

NextEval == EvaluateBoard

SpecEval == InitEval /\ [][NextEval]_vars

(***************************************************************************)
(* ChessGUI: update_board sends white's turns to show_suggestions (mcts,   *)
(* get_top_moves, one button per suggested move) and black's turns to      *)
(* make_opponent_move; a click on a button is make_move.                   *)
(***************************************************************************)
\* update_board: "if self.board.turn == chess.WHITE: ... else: ..."
update_board(b) == IF b.turn = WHITE THEN "show_suggestions" ELSE "make_opponent_move"

\* ChessGUI.__init__: self.board = chess.Board(), then update_board()
InitGUI ==
    /\ board0 \in {b \in StartBoards : b.turn = WHITE /\ ~is_game_over(b)}
    /\ heap = ("board" :> board0)
    /\ temp_board = "none"
    /\ iterations = MaxIter
    /\ simulation_depth \in 0..MaxDepth
    /\ tree = <<NewNode(NoMove, None)>>
    /\ it = 0
    /\ node = None
    /\ depth = 0
    /\ score = 0
    /\ pc = update_board(board0)
    /\ top_n = 0
    /\ top_moves = <<>>
    /\ start = None
    /\ snap = tree
    /\ rolled = 0
    /\ pushedOver = FALSE
    /\ rolledLeaves = {}
    /\ astar = AStarIdle
    /\ buttons = <<>>

\* show_suggestions: the old buttons destroyed, root = mcts(self.board)
ShowSuggestions ==
    /\ pc = "show_suggestions"
    /\ buttons' = <<>>
    /\ board0' = heap["board"]
    /\ heap' = ("board" :> heap["board"])
    /\ temp_board' = "none"
    /\ tree' = <<NewNode(NoMove, None)>>
    /\ it' = 0
    /\ node' = None
    /\ depth' = 0
    /\ score' = 0
    /\ top_n' = 0
    /\ top_moves' = <<>>
    /\ start' = None
    /\ snap' = tree'
    /\ rolled' = 0
    /\ rolledLeaves' = {}
    /\ pc' = "loop"
    /\ UNCHANGED <<iterations, simulation_depth, pushedOver, astar>>

\* show_suggestions after get_top_moves(root, top_n=3): the text with
\* node.wins / node.visits of every top move, then one button per top move
MakeButtons ==
    /\ pc = "ranked"
    /\ top_n = 3
    /\ IF \E i \in 1..Len(top_moves) : tree[top_moves[i]].visits = 0
       THEN /\ pc' = "ZeroDivisionError"
            /\ UNCHANGED buttons
       ELSE /\ pc' = "mainloop"
            /\ buttons' = [i \in 1..Len(top_moves) |-> tree[top_moves[i]].move]
    /\ UNCHANGED <<heap, temp_board, iterations, simulation_depth, tree, it, node,
                   depth, score, top_n, top_moves, board0, start, snap, rolled,
                   pushedOver, rolledLeaves, astar>>

\* a click on a button: make_move(move), which ends in update_board()
MakeMove ==
    /\ pc = "mainloop"
    /\ \E i \in 1..Len(buttons) :
        /\ heap' = [heap EXCEPT !["board"] = push(@, buttons[i])]
        /\ pc' = update_board(heap'["board"])
    /\ UNCHANGED <<temp_board, iterations, simulation_depth, tree, it, node,
                   depth, score, top_n, top_moves, board0, start, snap, rolled,
                   pushedOver, rolledLeaves, astar, buttons>>

\* make_opponent_move: a random legal move, then update_board()
MakeOpponentMove ==
    /\ pc = "make_opponent_move"
    /\ LET ms == legal_moves(heap["board"])
       IN  IF ms = <<>>
           THEN \* random.choice of an empty list raises IndexError
                /\ pc' = "IndexError"
                /\ UNCHANGED heap
           ELSE \E i \in 1..Len(ms) :
                /\ heap' = [heap EXCEPT !["board"] = push(@, ms[i])]
                /\ pc' = update_board(heap'["board"])
    /\ UNCHANGED <<temp_board, iterations, simulation_depth, tree, it, node,
                   depth, score, top_n, top_moves, board0, start, snap, rolled,
                   pushedOver, rolledLeaves, astar, buttons>>

NextGUI ==
    \/ ShowSuggestions
    \/ Iterate
    \/ Return
    \/ Select
    \/ Expand
    \/ Simulate
    \/ Evaluate
    \/ Backpropagate
    \/ GetTopMoves
    \/ MakeButtons
    \/ MakeMove
    \/ MakeOpponentMove

SpecGUI == InitGUI /\ [][NextGUI]_vars

(***************************************************************************)
(* Algoritmo A.py: a_estrella over the undirected graphs on four nodes     *)
(* whose edges cost 1..MaxCost, obtener_vecinos listing the neighbours in  *)
(* the order of their names and the heuristic being 0 everywhere.          *)
(***************************************************************************)
Nombres == <<"A", "B", "C", "D">>

NombreSet == {Nombres[i] : i \in 1..Len(Nombres)}

Aristas == {e \in SUBSET NombreSet : Cardinality(e) = 2}

\* a graph gives every pair of nodes a cost, 0 standing for no edge
Grafos == [Aristas -> 0..MaxCost]

\* obtener_vecinos(nodo): the list of (vecino, coste)
obtener_vecinos(grafo, nodo) ==
    LET IsVecino(v) == v # nodo /\ grafo[{nodo, v}] > 0
        vs == SelectSeq(Nombres, IsVecino)
    IN  [i \in 1..Len(vs) |-> <<vs[i], grafo[{nodo, vs[i]}]>>]

\* heuristica(nodo, objetivo): identically 0, admissible and consistent
heuristica(nodo, objetivo) == 0

\* Nodo.__init__; padre is <<>> for None and <<n>> for the node n
Nodo(nombre, g, h, padre) ==
    [nombre |-> nombre, g |-> g, h |-> h, f |-> g + h, padre |-> padre]

\* Nodo.__lt__
Lt(a, b) == a.f < b.f

\* heapq._siftdown on a list indexed from 1
RECURSIVE siftdown(_, _, _, _)
siftdown(h, startpos, pos, newitem) ==
    IF pos > startpos /\ Lt(newitem, h[pos \div 2])
    THEN siftdown([h EXCEPT ![pos] = h[pos \div 2]], startpos, pos \div 2, newitem)
    ELSE [h EXCEPT ![pos] = newitem]

\* heapq._siftup on a list indexed from 1
RECURSIVE siftup(_, _, _, _)
siftup(h, startpos, pos, newitem) ==
    LET childpos == 2 * pos
        rightpos == childpos + 1
        c == IF rightpos <= Len(h) /\ ~Lt(h[childpos], h[rightpos])
             THEN rightpos ELSE childpos
    IN  IF childpos <= Len(h)
        THEN siftup([h EXCEPT ![pos] = h[c]], startpos, c, newitem)
        ELSE siftdown([h EXCEPT ![pos] = newitem], startpos, pos, newitem)

heappush(h, item) == siftdown(Append(h, item), 1, Len(h) + 1, item)

\* heapq.heappop: the item returned and the list left
heappop(h) ==
    LET lastelt == h[Len(h)]
        rest == SubSeq(h, 1, Len(h) - 1)
    IN  IF rest = <<>>
        THEN [item |-> lastelt, heap |-> rest]
        ELSE [item |-> rest[1], heap |-> siftup([rest EXCEPT ![1] = lastelt], 1, 1, lastelt)]

\* "any(vecino == n.nombre for n in abierta)"
EnAbierta(abierta, vecino) == \E i \in 1..Len(abierta) : abierta[i].nombre = vecino

\* the loop over the neighbours of nodo_actual, from the i-th on
RECURSIVE Explorar(_, _, _, _, _, _)
Explorar(abierta, vs, i, nodo_actual, cerrada, objetivo) ==
    IF i > Len(vs) THEN abierta
    ELSE LET vecino == vs[i][1]
             coste == vs[i][2]
             g == nodo_actual.g + coste
             h == heuristica(vecino, objetivo)
             nodo_vecino == Nodo(vecino, g, h, <<nodo_actual>>)
         IN  IF vecino \in cerrada
             THEN Explorar(abierta, vs, i + 1, nodo_actual, cerrada, objetivo)
             ELSE IF ~EnAbierta(abierta, vecino)
                  THEN Explorar(heappush(abierta, nodo_vecino), vs, i + 1,
                                nodo_actual, cerrada, objetivo)
                  ELSE Explorar(abierta, vs, i + 1, nodo_actual, cerrada, objetivo)

\* the path rebuilt along padre, already reversed
RECURSIVE Camino(_)
Camino(nodo) ==
    IF nodo.padre = <<>> THEN <<nodo.nombre>>
    ELSE Append(Camino(nodo.padre[1]), nodo.nombre)

InitAStar ==
    /\ board0 \in {b \in StartBoards : b.turn = WHITE /\ ~is_game_over(b)}
    /\ heap = ("board" :> board0)
    /\ temp_board = "none"
    /\ iterations = 0
    /\ simulation_depth = 0
    /\ tree = <<NewNode(NoMove, None)>>
    /\ it = 0
    /\ node = None
    /\ depth = 0
    /\ score = 0
    /\ pc = "idle"
    /\ top_n = 0
    /\ top_moves = <<>>
    /\ start = None
    /\ snap = tree
    /\ rolled = 0
    /\ pushedOver = FALSE
    /\ rolledLeaves = {}
    /\ buttons = <<>>
    /\ \E grafo \in Grafos, inicio \in {Nombres[1]}, objetivo \in NombreSet :
        astar = [pc |-> "while", grafo |-> grafo, inicio |-> inicio,
                 objetivo |-> objetivo,
                 abierta |-> heappush(<<>>, Nodo(inicio, 0, heuristica(inicio, objetivo), <<>>)),
                 cerrada |-> {}, camino |-> <<>>]

\* one turn of "while abierta"
AEstrellaLoop ==
    /\ astar.pc = "while"
    /\ astar.abierta # <<>>
    /\ LET popped == heappop(astar.abierta)
           nodo_actual == popped.item
       IN  IF nodo_actual.nombre = astar.objetivo
           THEN astar' = [astar EXCEPT !.pc = "return camino",
                                       !.abierta = popped.heap,
                                       !.camino = Camino(nodo_actual)]
           ELSE LET cerrada == astar.cerrada \cup {nodo_actual.nombre}
                IN  astar' = [astar EXCEPT
                        !.cerrada = cerrada,
                        !.abierta = Explorar(popped.heap,
                                             obtener_vecinos(astar.grafo, nodo_actual.nombre),
                                             1, nodo_actual, cerrada, astar.objetivo)]
    /\ UNCHANGED <<heap, temp_board, iterations, simulation_depth, tree, it, node,
                   depth, score, pc, top_n, top_moves, board0, start, snap, rolled,
                   pushedOver, rolledLeaves, buttons>>

\* the open list is empty: "return None"
AEstrellaNone ==
    /\ astar.pc = "while"
    /\ astar.abierta = <<>>
    /\ astar' = [astar EXCEPT !.pc = "return None"]
    /\ UNCHANGED <<heap, temp_board, iterations, simulation_depth, tree, it, node,
                   depth, score, pc, top_n, top_moves, board0, start, snap, rolled,
                   pushedOver, rolledLeaves, buttons>>

NextAStar ==
    \/ AEstrellaLoop
    \/ AEstrellaNone

SpecAStar == InitAStar /\ [][NextAStar]_vars

(***************************************************************************)
(* get_top_moves on any node: a node with up to MaxKids children of any    *)
(* visits and wins, ranked for any top_n.                                  *)
(***************************************************************************)
RankedTree(k, vs, ws) ==
    <<[move |-> NoMove, parent |-> None, children |-> [i \in 1..k |-> i + 1],
       wins |-> 0, visits |-> 0]>>
    \o [i \in 1..k |-> [move |-> <<"x", Squares[i]>>, parent |-> Root,
                         children |-> <<>>, wins |-> ws[i], visits |-> vs[i]]]

InitRank ==
    /\ board0 = Position(WHITE, Place("a1", "R", "h8", "p"), "play")
    /\ heap = ("board" :> board0)
    /\ temp_board = "none"
    /\ iterations = 0
    /\ simulation_depth = 0
    /\ \E k \in 0..MaxKids : \E vs \in [1..k -> 0..MaxVisits] : \E ws \in [1..k -> {-10, 10}] :
            tree = RankedTree(k, vs, ws)
    /\ it = 0
    /\ node = None
    /\ depth = 0
    /\ score = 0
    /\ pc = "returned"
    /\ top_n = 0
    /\ top_moves = <<>>
    /\ start = None
    /\ snap = tree
    /\ rolled = 0
    /\ pushedOver = FALSE
    /\ rolledLeaves = {}
    /\ astar = AStarIdle
    /\ buttons = <<>>

NextRank == GetTopMoves

SpecRank == InitRank /\ [][NextRank]_vars

(***************************************************************************)
(* What an iteration did: the tree now against the tree when it began.     *)
(***************************************************************************)
Nodes == 1..Len(tree)

Before(n) == IF n <= Len(snap) THEN snap[n] ELSE NewNode(tree[n].move, tree[n].parent)

DeltaWins(n) == tree[n].wins - Before(n).wins
DeltaVisits(n) == tree[n].visits - Before(n).visits

RECURSIVE Ancestors(_)
Ancestors(n) == IF n = None THEN {} ELSE {n} \cup Ancestors(tree[n].parent)

IterationDone == pc \in {"loop", "returned", "ranked"} /\ it > 0

Children(n) == {tree[n].children[i] : i \in 1..Len(tree[n].children)}

\* the tree with every wins set to 0
ZeroWins(t) == [i \in 1..Len(t) |-> [t[i] EXCEPT !.wins = 0]]

\* the position of node n: the moves from the root to n replayed on the input
RECURSIVE Replay(_)
Replay(n) == IF tree[n].parent = None THEN board0 ELSE push(Replay(tree[n].parent), tree[n].move)

(***************************************************************************)
(* C1: in an iteration with a non-zero reward, the amount added to wins of *)
(* a node of the backpropagated path and the amount added to wins of its   *)
(* parent have opposite signs.                                             *)
(***************************************************************************)
C1_SignAlternates ==
    (IterationDone /\ score # 0) =>
        \A n \in Ancestors(start) :
            tree[n].parent # None => DeltaWins(n) * DeltaWins(tree[n].parent) < 0

(***************************************************************************)
(* C2: when mcts returns, it has run exactly `iterations` turns of the     *)
(* loop and root.visits = iterations.                                      *)
(***************************************************************************)
C2_RootVisits ==
    pc \in {"returned", "ranked"} => (it = iterations /\ tree[Root].visits = iterations)

C2_Witness ==
    /\ pc = "returned"
    /\ iterations = MaxIter
    /\ \E n \in Nodes : n # Root /\ tree[n].children # <<>>

(***************************************************************************)
(* C3: best_child, called on a node with an unvisited child, returns an    *)
(* unvisited child whatever the exploration constant; and no child has     *)
(* visits >= 2 while a sibling has visits = 0.                             *)
(***************************************************************************)
C3_UnvisitedFirst ==
    /\ (pc = "select" /\ SelectionContinues(tree, node)
            /\ \E c \in Children(node) : tree[c].visits = 0)
        => \A w \in 0..MaxWeight : tree[best_child_with(tree, node, w)].visits = 0
    /\ \A n \in Nodes : \A c, d \in Children(n) :
            ~(tree[c].visits >= 2 /\ tree[d].visits = 0)

C3_Witness ==
    /\ pc = "select"
    /\ \E c, d \in Children(node) :
        /\ tree[c].visits > 0
        /\ tree[c].wins > 0
        /\ tree[d].visits = 0
        /\ tree[best_child(tree, node)].visits = 0

C5_TerminalInput ==
    is_game_over(board0) =>
        /\ tree[Root].children = <<>>
        /\ Len(tree) = 1
        /\ rolled = 0
        /\ pc \notin {"IndexError", "ValueError"}

C5_Witness ==
    /\ pc = "returned"
    /\ is_game_over(board0)
    /\ legal_moves(board0) # <<>>
    /\ iterations = MaxIter
    /\ simulation_depth > 0
    /\ tree[Root].children = <<>>

(***************************************************************************)
(* C6: the board handed to mcts is never modified, and every iteration     *)
(* starts its descent from that same position.                             *)
(***************************************************************************)
C6_BoardUntouched ==
    /\ heap["board"] = board0
    /\ (pc = "select" /\ node = Root) => heap[temp_board] = board0

C6_Witness ==
    /\ pc = "backprop"
    /\ it >= 1
    /\ rolled > 0
    /\ heap[temp_board] # board0
    /\ heap["board"] = board0

(***************************************************************************)
(* C7: the children of a node change only once, from none to its full set: *)
(* no step changes the children of a node that has some, and no node is    *)
(* ever removed.                                                           *)
(***************************************************************************)
C7_ExpandedOnce ==
    [][/\ Len(tree') >= Len(tree)
       /\ \A n \in 1..Len(tree) :
            tree[n].children # <<>> => tree'[n].children = tree[n].children]_vars

C7_Witness ==
    /\ pc = "simulate"
    /\ Len(tree) > Len(snap)
    /\ \E n \in 1..Len(snap) : snap[n].children # <<>> /\ n \in Ancestors(node)

(***************************************************************************)
(* C8: an expanded node has one child per legal move of the position       *)
(* reached by replaying the moves from the root to it, in order, each with *)
(* that node for parent and, when created, visits = 0 and wins = 0; only a *)
(* position that is not over is expanded; the root is the only node with   *)
(* no move and no parent.                                                  *)
(***************************************************************************)
C8_Expansion ==
    /\ \A n \in Nodes :
        tree[n].children # <<>> =>
            /\ ~is_game_over(Replay(n))
            /\ [i \in 1..Len(tree[n].children) |-> tree[tree[n].children[i]].move]
                    = legal_moves(Replay(n))
            /\ Cardinality(Children(n)) = Len(legal_moves(Replay(n)))
            /\ \A c \in Children(n) : tree[c].parent = n
    /\ \A n \in Nodes : (tree[n].move = NoMove \/ tree[n].parent = None) <=> n = Root
    /\ pc = "simulate" =>
            \A n \in Nodes : n > Len(snap) =>
                tree[n].visits = 0 /\ tree[n].wins = 0 /\ tree[n].children = <<>>

C8_Witness ==
    /\ pc = "simulate"
    /\ Len(tree) > Len(snap)
    /\ tree[node].parent # Root
    /\ Len(tree[tree[node].parent].children) >= 2
    /\ legal_moves(Replay(tree[node].parent)) # legal_moves(board0)

(***************************************************************************)
(* C9: an iteration adds exactly 1 to visits of every node from the        *)
(* rollout's starting node up to the root, and changes visits and wins of  *)
(* no other node.                                                          *)
(***************************************************************************)
C9_BackpropPath ==
    IterationDone =>
        /\ Root \in Ancestors(start)
        /\ \A n \in Nodes :
            IF n \in Ancestors(start)
            THEN DeltaVisits(n) = 1
            ELSE DeltaVisits(n) = 0 /\ DeltaWins(n) = 0

C9_Witness ==
    /\ IterationDone
    /\ start # Root
    /\ tree[start].parent # Root
    /\ \E n \in Nodes : n \notin Ancestors(start) /\ tree[n].visits > 0

(***************************************************************************)
(* C10: the rollout pushes at most simulation_depth moves, never one on a  *)
(* finished game, and ends exactly when the game is over or                *)
(* simulation_depth moves were pushed.                                     *)
(***************************************************************************)
C10_Rollout ==
    /\ rolled <= simulation_depth
    /\ ~pushedOver
    /\ pc \in {"simulate", "score", "backprop"} => depth = rolled
    /\ pc \in {"score", "backprop"} =>
            (is_game_over(heap[temp_board]) \/ rolled = simulation_depth)
    /\ pc \notin {"IndexError", "ValueError"}

C10_Witness ==
    /\ pc = "score"
    /\ is_game_over(heap[temp_board])
    /\ rolled > 0
    /\ rolled < simulation_depth

\* a finished game is won by the side that is not to move in a checkmate
WonBy(b, color) == b.status = "checkmate" /\ b.turn # color

(***************************************************************************)
(* C11: the reward, before the backpropagation, is +1 for a finished game  *)
(* won by white, -1 for one won by black, 0 for any other finished game,   *)
(* whatever the evaluator says of the position; and it is the evaluator's  *)
(* value exactly when the rollout ended in a position that is not over.    *)
(***************************************************************************)
C11_Reward ==
    pc = "backprop" =>
        LET b == heap[temp_board]
        IN  IF is_game_over(b)
            THEN score = (IF WonBy(b, WHITE) THEN 10 ELSE IF WonBy(b, BLACK) THEN -10 ELSE 0)
            ELSE score = evaluate_board(b)

C11_Witness ==
    /\ pc = "backprop"
    /\ is_game_over(heap[temp_board])
    /\ WonBy(heap[temp_board], BLACK)
    /\ score = -10
    /\ evaluate_board(heap[temp_board]) # score

(***************************************************************************)
(* C12: whenever best_child is called in the search, every child on which  *)
(* ucb1 divides by visits has visits > 0 and its parent has visits >= 1;   *)
(* an unvisited child gets the infinite priority without any division.     *)
(***************************************************************************)
C12_NoUnvisitedAverage ==
    /\ pc # "ValueError"
    /\ (pc = "select" /\ SelectionContinues(tree, node)) =>
        \A c \in Children(node) :
            /\ tree[c].parent = node
            /\ tree[c].visits >= 0
            /\ tree[c].visits = 0 => ucb1(tree, c, exploration_weight) = <<1, 0>>
            /\ tree[c].visits > 0 =>
                /\ tree[node].visits >= 1
                /\ ucb1(tree, c, exploration_weight)[1] = 0

C12_Witness ==
    /\ pc = "select"
    /\ node # Root
    /\ \E c, d \in Children(node) : tree[c].visits > 0 /\ tree[d].visits = 0
    /\ tree[node].visits >= 2

(***************************************************************************)
(* C13: when the expansion finds no legal move in a position reported not  *)
(* over, the search raises instead of going on: the step ends in the       *)
(* error, with no rollout move, and the tree is the tree the iteration     *)
(* began with; and nothing runs after an error, so no backpropagation      *)
(* updates the childless node.                                             *)
(***************************************************************************)
C13_NoMovesRaises ==
    [][/\ (pc = "expand" /\ ~is_game_over(heap[temp_board])
                /\ legal_moves(heap[temp_board]) = <<>>)
            => (pc' = "IndexError" /\ tree' = snap /\ rolled' = 0 /\ node' = node)
       /\ pc \notin {"IndexError", "ValueError"}]_vars

C13_Witness ==
    /\ pc = "IndexError"
    /\ tree = snap
    /\ node # Root
    /\ tree[Root].visits >= 1
    /\ tree[node].visits = 0
    /\ tree[node].children = <<>>
    /\ ~is_game_over(heap[temp_board])
    /\ legal_moves(heap[temp_board]) = <<>>

WorthOf(p) ==
    CASE p = "P" -> 10 [] p = "N" -> 30 [] p = "B" -> 30 [] p = "R" -> 50 [] p = "Q" -> 90
      [] p = "p" -> -10 [] p = "n" -> -30 [] p = "b" -> -30 [] p = "r" -> -50 [] p = "q" -> -90
      [] OTHER -> 0

CenterOf(p, s) ==
    IF s \notin {"d4", "d5", "e4", "e5"} THEN 0
    ELSE IF p \in WhitePieces THEN 1 ELSE IF p \in BlackPieces THEN -1 ELSE 0

RECURSIVE WorthFrom(_, _)
WorthFrom(b, i) ==
    IF i > Len(Squares) THEN 0
    ELSE WorthOf(b.pieces[Squares[i]]) + CenterOf(b.pieces[Squares[i]], Squares[i])
         + WorthFrom(b, i + 1)

SwapColors(b) ==
    [b EXCEPT !.pieces = [s \in SquareSet |->
        CASE b.pieces[s] = "P" -> "p" [] b.pieces[s] = "N" -> "n" [] b.pieces[s] = "B" -> "b"
          [] b.pieces[s] = "R" -> "r" [] b.pieces[s] = "Q" -> "q" [] b.pieces[s] = "K" -> "k"
          [] b.pieces[s] = "p" -> "P" [] b.pieces[s] = "n" -> "N" [] b.pieces[s] = "b" -> "B"
          [] b.pieces[s] = "r" -> "R" [] b.pieces[s] = "q" -> "Q" [] b.pieces[s] = "k" -> "K"
          [] OTHER -> "."]]

RookAndPawn(b) ==
    \E s, u \in SquareSet \ {"d4", "d5", "e4", "e5"} :
        /\ s # u
        /\ b.pieces = [x \in SquareSet |-> IF x = s THEN "R" ELSE IF x = u THEN "p" ELSE "."]

(***************************************************************************)
(* C14: evaluate_board is white material minus black material (pawn 1,     *)
(* knight 3, bishop 3, rook 5, queen 9, king 0) plus 0.1 per center square *)
(* held by white and minus 0.1 per center square held by black; a white    *)
(* rook and a black pawn off the center give exactly 4; exchanging the     *)
(* colors of all pieces negates the value.  (Values in tenths.)            *)
(***************************************************************************)
C14_Evaluation ==
    pc = "evaluated" =>
        /\ score = WorthFrom(heap["board"], 1)
        /\ RookAndPawn(heap["board"]) => score = 40
        /\ evaluate_board(SwapColors(heap["board"])) = -score

C14_Witness ==
    /\ pc = "evaluated"
    /\ heap["board"].pieces["d4"] = "n"
    /\ heap["board"].pieces["a1"] = "Q"
    /\ score = 59

(***************************************************************************)
(* C15: after mcts(board, N) on a position that is not over, with k legal  *)
(* moves, exactly min(N, k) children of the root have visits >= 1; so when *)
(* N >= k every node get_top_moves(root, n) returns has visits > 0, and    *)
(* wins / visits of show_suggestions is defined for it.                    *)
(***************************************************************************)
C15_TopMovesVisited ==
    (pc \in {"returned", "ranked"} /\ ~is_game_over(board0)) =>
        LET k == Len(legal_moves(board0))
            visited == {c \in Children(Root) : tree[c].visits >= 1}
        IN  /\ Cardinality(visited) = (IF iterations < k THEN iterations ELSE k)
            /\ (pc = "ranked" /\ iterations >= k) =>
                    \A i \in 1..Len(top_moves) : tree[top_moves[i]].visits > 0

C15_Witness ==
    /\ pc = "ranked"
    /\ ~is_game_over(board0)
    /\ Len(legal_moves(board0)) = 3
    /\ iterations = 3
    /\ top_n = 3
    /\ Len(top_moves) = 3
    /\ \A i \in 1..3 : tree[top_moves[i]].visits = 1

RECURSIVE VisitsFrom(_, _)
VisitsFrom(cs, i) == IF i > Len(cs) THEN 0 ELSE tree[cs[i]].visits + VisitsFrom(cs, i + 1)

OwnVisits(n) == tree[n].visits - VisitsFrom(tree[n].children, 1)

(***************************************************************************)
(* C16: after every completed iteration, for every node that has children, *)
(* visits minus the sum of the visits of its children is 0 or 1, and 1     *)
(* exactly when a rollout started from the node before it was expanded;    *)
(* for the root of a position that is not over it is 0, so the visits of   *)
(* the root's children sum to the number of iterations run.                *)
(***************************************************************************)
C16_VisitsConserved ==
    IterationDone =>
        /\ \A n \in Nodes :
            tree[n].children # <<>> =>
                OwnVisits(n) = (IF n \in rolledLeaves THEN 1 ELSE 0)
        /\ ~is_game_over(board0) =>
                /\ OwnVisits(Root) = 0
                /\ VisitsFrom(tree[Root].children, 1) = it

C16_Witness ==
    /\ IterationDone
    /\ it = MaxIter
    /\ \E n, m \in Nodes \ {Root} :
        /\ tree[n].children # <<>>
        /\ OwnVisits(n) = 1
        /\ tree[m].children # <<>>
        /\ OwnVisits(m) = 0

(***************************************************************************)
(* C17: make_opponent_move is only entered in a position that has a legal  *)
(* move, whatever suggested moves were played before.                      *)
(***************************************************************************)
C17_OpponentCanMove ==
    pc = "make_opponent_move" => legal_moves(heap["board"]) # <<>>

\* the simple walks from inicio to objetivo along edges of the graph
Caminos(grafo, inicio, objetivo) ==
    {c \in UNION {[1..n -> NombreSet] : n \in 1..Len(Nombres)} :
        /\ c[1] = inicio
        /\ c[Len(c)] = objetivo
        /\ \A i \in 1..Len(c), j \in 1..Len(c) : i # j => c[i] # c[j]
        /\ \A i \in 1..(Len(c) - 1) : grafo[{c[i], c[i + 1]}] > 0}

RECURSIVE CosteFrom(_, _, _)
CosteFrom(grafo, c, i) ==
    IF i >= Len(c) THEN 0 ELSE grafo[{c[i], c[i + 1]}] + CosteFrom(grafo, c, i + 1)

Coste(grafo, c) == CosteFrom(grafo, c, 1)

(***************************************************************************)
(* C18: with the heuristic identically 0, a_estrella returns None exactly  *)
(* when objetivo cannot be reached from inicio, and otherwise a path from  *)
(* inicio to objetivo that no other path undercuts in total cost.          *)
(***************************************************************************)
C18_MinimumCostPath ==
    LET cs == Caminos(astar.grafo, astar.inicio, astar.objetivo)
    IN  /\ astar.pc = "return None" => cs = {}
        /\ astar.pc = "return camino" =>
            /\ astar.camino \in cs
            /\ \A c \in cs : Coste(astar.grafo, astar.camino) <= Coste(astar.grafo, c)

====
